---- MODULE Spec2Model ----
(***************************************************************************)
(* simple-ids: the two traffic analyzers, NetworkAnalyzer                  *)
(* (network_analyzer.py) and MLNetworkAnalyzer (ml_network_analyzer.py).   *)
(*                                                                         *)
(* Conventions of the model                                                *)
(*  - A Python string that is used as an address is the sequence of its    *)
(*    ':'-free segments: "10.0.0.9" is <<"10.0.0.9">>, "fe80::1" is        *)
(*    <<"fe80", "", "1">>, "" is <<"">>.  Joining with ':' is              *)
(*    concatenation of segment sequences and str.split(':') gives the      *)
(*    segments back.  A key missing from a packet dict is Absent.          *)
(*  - A Python dict is the sequence of its items [k, v] in insertion       *)
(*    order (the order Python iterates it in).                             *)
(*  - Time is in whole seconds, confidences are in hundredths; sums and     *)
(*    comparisons of confidences are those of exact arithmetic.            *)
(*  - time.time() readings are taken to be non-decreasing.                 *)
(***************************************************************************)
EXTENDS Integers, Sequences, FiniteSets, TLC

VARIABLES
  clock,           \* the last reading of time.time()
  calls,           \* number of analyze() calls made so far
  ip_port_access,  \* NetworkAnalyzer.ip_port_access
  deauth_frames,   \* NetworkAnalyzer.deauth_frames
  net_call,        \* the last NetworkAnalyzer.analyze call: input and outcome
  models,          \* MLNetworkAnalyzer.models: which models were loaded
  packet_history,  \* MLNetworkAnalyzer.packet_history
  ip_behavior,     \* MLNetworkAnalyzer.ip_behavior
  ml_call,         \* the last MLNetworkAnalyzer.analyze call: input and outcome
  ingested,        \* every event handed to MLNetworkAnalyzer.analyze, in order
  score_log,       \* per IP: every confidence recorded since its entry was created
  threads,         \* whether the calls in progress run on threads of their own
  tasks            \* the analyze calls in progress: input, position and locals

vars == <<clock, calls, ip_port_access, deauth_frames, net_call, models,
          packet_history, ip_behavior, ml_call, ingested, score_log, threads, tasks>>

net_vars == <<ip_port_access, deauth_frames, net_call>>

ml_vars == <<models, packet_history, ip_behavior, ml_call, ingested, score_log>>

\* the analyze calls in progress side by side
conc_vars == <<threads, tasks>>

(***************************************************************************)
(* Bounds of the model                                                     *)
(***************************************************************************)
MaxNetCalls == 3

MaxMLCalls == 3

MaxHistCalls == 3

(***************************************************************************)
(* Strings, packets, dicts                                                 *)
(***************************************************************************)
Absent == <<>>

EMPTY == <<"">>

A_PUB == <<"8.8.8.8">>

A_PUB2 == <<"1.1.1.1">>

A_PRIV == <<"10.0.0.9">>

A_V6 == <<"fe80", "", "1">>

A_BAD == <<"bogus">>

A_PUB6 == <<"2606", "4700", "", "1111">>

M1 == <<"aa-bb-cc-00-00-01">>

\* packet.get(key, default)
Get(v, default) == IF v = Absent THEN default ELSE v

\* truthiness of a str
Truthy(s) == s # EMPTY

Pkt(src, dst, sport, dport, size) ==
  [src |-> src, dst |-> dst, sport |-> sport, dport |-> dport, proto |-> "tcp",
   size |-> size, flags |-> "S", frame_type |-> "", frame_subtype |-> "",
   src_mac |-> Absent]

Frame(ftype, subtype, mac) ==
  [src |-> Absent, dst |-> Absent, sport |-> 0, dport |-> 0, proto |-> "",
   size |-> 0, flags |-> "", frame_type |-> ftype, frame_subtype |-> subtype,
   src_mac |-> mac]

Keys(d) == {d[i].k : i \in DOMAIN d}

Range(s) == {s[i] : i \in DOMAIN s}

Has(d, k) == \E i \in DOMAIN d : d[i].k = k

Lookup(d, k) == d[CHOOSE i \in DOMAIN d : d[i].k = k].v

\* the sequence f with its elements evaluated (once)
Tuple(f) == f \o <<>>

\* the indices of s, in order
Indices(s) == [i \in 1..Len(s) |-> i]

\* the distinct elements of s in the order of their first occurrence
Distinct(s) ==
  LET firsts == SelectSeq(Indices(s), LAMBDA i : \A j \in 1..(i - 1) : s[j] # s[i])
  IN  Tuple([r \in DOMAIN firsts |-> s[firsts[r]]])

\* the last n elements of s: s[-n:] for n > 0
LastN(s, n) == IF Len(s) <= n THEN s ELSE SubSeq(s, Len(s) - n + 1, Len(s))

RECURSIVE Sum(_)
Sum(s) == IF s = <<>> THEN 0 ELSE s[1] + Sum(Tail(s))

RECURSIVE Concat(_)
Concat(ss) == IF ss = <<>> THEN <<>> ELSE ss[1] \o Concat(Tail(ss))

\* ipaddress.ip_address(ip).is_private on the addresses of the model; a string
\* that is no address raises ValueError, which is caught and answered False
is_internal_ip(ip) == ip \in {A_PRIV, A_V6, <<"0.0.0.0">>}

(***************************************************************************)
(* NetworkAnalyzer                                                         *)
(***************************************************************************)
port_scan_threshold == 10

port_scan_window == 5

deauth_threshold == 5

deauth_window == 3

net_horizon == 60

suspicious_ports == {22, 3389, 445}

suspicious_name(p) == IF p = 22 THEN "SSH" ELSE IF p = 3389 THEN "RDP" ELSE "SMB"

Alert(t, type, severity, source, description) ==
  [timestamp |-> t, type |-> type, severity |-> severity, source |-> source,
   description |-> description]

\* the loop body's port tracking: every packet with a truthy src is appended
\* to its IP's list, a new IP's list being created at its first packet
track_ports(access, batch, t) ==
  LET srcs == Tuple([i \in DOMAIN batch |-> Get(batch[i].src, EMPTY)])
      add(ip) == LET own == SelectSeq(batch, LAMBDA p : Get(p.src, EMPTY) = ip)
                 IN  [i \in DOMAIN own |-> <<t, own[i].dport>>]
      fresh == SelectSeq(Distinct(srcs), LAMBDA ip : Truthy(ip) /\ ~Has(access, ip))
  IN  [i \in DOMAIN access |-> [k |-> access[i].k, v |-> access[i].v \o add(access[i].k)]]
      \o [i \in DOMAIN fresh |-> [k |-> fresh[i], v |-> add(fresh[i])]]

is_deauth(p) ==
  /\ p.frame_type = "management"
  /\ p.frame_subtype = "deauth"
  /\ Truthy(Get(p.src_mac, EMPTY))

track_deauth(frames, batch, t) ==
  LET hits == SelectSeq(batch, is_deauth)
      macs == Tuple([i \in DOMAIN hits |-> hits[i].src_mac])
      add(mac) == LET own == SelectSeq(hits, LAMBDA p : p.src_mac = mac)
                  IN  [i \in DOMAIN own |-> t]
      fresh == SelectSeq(Distinct(macs), LAMBDA mac : ~Has(frames, mac))
  IN  [i \in DOMAIN frames |-> [k |-> frames[i].k, v |-> frames[i].v \o add(frames[i].k)]]
      \o [i \in DOMAIN fresh |-> [k |-> fresh[i], v |-> add(fresh[i])]]

is_watched(p) ==
  /\ p.dport \in suspicious_ports
  /\ Truthy(Get(p.src, EMPTY))
  /\ ~is_internal_ip(Get(p.src, EMPTY))

watchlist_alerts(batch, t) ==
  LET hits == SelectSeq(batch, is_watched)
  IN  [i \in DOMAIN hits |->
         Alert(t, suspicious_name(hits[i].dport) \o " Access Attempt", "medium",
               "network_traffic", <<hits[i].src, hits[i].dport>>)]

\* recent_ports with the accesses stamped exactly port_scan_window ago included
recent_ports_inclusive(accesses, t) ==
  {accesses[i][2] : i \in {j \in DOMAIN accesses : accesses[j][1] >= t - port_scan_window}}

\* the ports of recent_accesses in _detect_port_scans
recent_ports(accesses, t) ==
  {accesses[i][2] : i \in {j \in DOMAIN accesses : accesses[j][1] > t - port_scan_window}}

\* is_port_scan with the threshold excluded
is_port_scan_above(accesses, t) ==
  Cardinality(recent_ports(accesses, t)) > port_scan_threshold

is_port_scan(accesses, t) == Cardinality(recent_ports(accesses, t)) >= port_scan_threshold

detect_port_scans(access, t) ==
  LET hits == SelectSeq(access, LAMBDA e : is_port_scan(e.v, t))
  IN  [i \in DOMAIN hits |->
         Alert(t, "Potential Port Scan", "high", "network_traffic",
               <<hits[i].k, Cardinality(recent_ports(hits[i].v, t)), port_scan_window>>)]

recent_frames(timestamps, t) == SelectSeq(timestamps, LAMBDA x : x > t - deauth_window)

\* is_deauth_attack with the threshold excluded
is_deauth_attack_above(timestamps, t) ==
  Len(recent_frames(timestamps, t)) > deauth_threshold

is_deauth_attack(timestamps, t) == Len(recent_frames(timestamps, t)) >= deauth_threshold

detect_deauth_attacks(frames, t) ==
  LET hits == SelectSeq(frames, LAMBDA e : is_deauth_attack(e.v, t))
  IN  [i \in DOMAIN hits |->
         Alert(t, "WiFi Deauthentication Attack", "high", "network_traffic",
               <<hits[i].k, Len(recent_frames(hits[i].v, t)), deauth_window>>)]

\* cleanup_ports deleting only the keys whose list was empty before the call
cleanup_ports_late(access, cutoff) ==
  LET kept == [i \in DOMAIN access |->
                 [k |-> access[i].k,
                  v |-> SelectSeq(access[i].v, LAMBDA a : a[1] > cutoff)]]
  IN  SelectSeq(kept, LAMBDA e : Lookup(access, e.k) # <<>>)

\* _cleanup_old_entries, one tracking dict at a time: keep what is newer than
\* the cutoff, delete the keys whose list became empty
cleanup_ports(access, cutoff) ==
  LET kept == [i \in DOMAIN access |->
                 [k |-> access[i].k,
                  v |-> SelectSeq(access[i].v, LAMBDA a : a[1] > cutoff)]]
  IN  SelectSeq(kept, LAMBDA e : e.v # <<>>)

cleanup_deauth(frames, cutoff) ==
  LET kept == [i \in DOMAIN frames |->
                 [k |-> frames[i].k,
                  v |-> SelectSeq(frames[i].v, LAMBDA x : x > cutoff)]]
  IN  SelectSeq(kept, LAMBDA e : e.v # <<>>)

\* NetworkAnalyzer.analyze without the early return on an empty batch
NetAnalyzeUnguarded(batch, t) ==
  /\ calls' = calls + 1
  /\ clock' = t
  /\ \E access \in {track_ports(ip_port_access, batch, t)} :
     \E frames \in {track_deauth(deauth_frames, batch, t)} :
       /\ ip_port_access' = cleanup_ports(access, t - net_horizon)
       /\ deauth_frames' = cleanup_deauth(frames, t - net_horizon)
       /\ net_call' = [batch |-> batch, now |-> t, outcome |-> "returned",
                       alerts |-> watchlist_alerts(batch, t)
                                  \o detect_port_scans(access, t)
                                  \o detect_deauth_attacks(frames, t)]
  /\ UNCHANGED <<ml_vars, conc_vars>>

\* NetworkAnalyzer.analyze(network_data) with time.time() reading t; access and
\* frames are the tracking dicts after the loop over the batch
NetAnalyze(batch, t) ==
  /\ calls' = calls + 1
  /\ clock' = t
  /\ IF batch = <<>>
     THEN /\ net_call' = [batch |-> batch, now |-> t, outcome |-> "returned",
                          alerts |-> <<>>]
          /\ UNCHANGED <<ip_port_access, deauth_frames>>
     ELSE \E access \in {track_ports(ip_port_access, batch, t)} :
          \E frames \in {track_deauth(deauth_frames, batch, t)} :
            /\ ip_port_access' = cleanup_ports(access, t - net_horizon)
            /\ deauth_frames' = cleanup_deauth(frames, t - net_horizon)
            /\ net_call' = [batch |-> batch, now |-> t, outcome |-> "returned",
                            alerts |-> watchlist_alerts(batch, t)
                                       \o detect_port_scans(access, t)
                                       \o detect_deauth_attacks(frames, t)]
  /\ UNCHANGED <<ml_vars, conc_vars>>

(***************************************************************************)
(* MLNetworkAnalyzer                                                       *)
(***************************************************************************)
history_limit == 1000

batch_size == 64

anomaly_threshold == 85

probability_threshold == 75

high_confidence == 90

scores_limit == 10

ml_horizon == 3600

brute_force_ports == {22, 23, 3389, 445}

brute_force_count == 10

large_transfer_bytes == 100000

attack_types(label) ==
  CASE label = 0 -> "Normal Traffic"
    [] label = 1 -> "Port Scan"
    [] label = 2 -> "DoS Attack"
    [] label = 3 -> "Brute Force"
    [] label = 4 -> "Data Exfiltration"
    [] label = 5 -> "Command and Control"
    [] OTHER -> "Unknown Attack"

\* extend_history keeping the oldest history_limit events
extend_history_oldest(history, batch) ==
  LET h == history \o batch
  IN  IF Len(h) > history_limit THEN SubSeq(h, 1, history_limit) ELSE h

\* packet_history.extend(network_data), then the trim to the last history_limit
extend_history(history, batch) ==
  LET h == history \o batch
  IN  IF Len(h) > history_limit THEN LastN(h, history_limit) ELSE h

\* the IP behaviour loop: an entry is created at an IP's first packet, every
\* packet with a truthy src adds one to packets and sets last_seen
observe(behavior, batch, t) ==
  LET srcs == Tuple([i \in DOMAIN batch |-> Get(batch[i].src, EMPTY)])
      count(ip) == Len(SelectSeq(srcs, LAMBDA s : s = ip))
      seen(e) == IF count(e.k) = 0 THEN e
                 ELSE [k |-> e.k,
                       v |-> [packets |-> e.v.packets + count(e.k), last_seen |-> t,
                              scores |-> e.v.scores]]
      fresh == SelectSeq(Distinct(srcs), LAMBDA ip : Truthy(ip) /\ ~Has(behavior, ip))
  IN  [i \in DOMAIN behavior |-> seen(behavior[i])]
      \o [i \in DOMAIN fresh |->
            [k |-> fresh[i],
             v |-> [packets |-> count(fresh[i]), last_seen |-> t, scores |-> <<>>]]]

\* the attribution with an index past the end wrapping to the first events
attributed_wrapped(batch, i) ==
  IF i <= Len(batch) THEN batch[i] ELSE batch[i - Len(batch)]

\* packets[i] if i < len(packets) else packets[-1], for the 1-based index i
attributed(batch, i) == IF i <= Len(batch) THEN batch[i] ELSE batch[Len(batch)]

\* is_attack with a confidence at the threshold counted as above it
is_attack_at_threshold(pred) == pred.label > 0 /\ pred.conf >= probability_threshold

\* attack_type_idx > 0 and attack_confidence > self.probability_threshold
is_attack(pred) == pred.label > 0 /\ pred.conf > probability_threshold

cnn_severity(conf) == IF conf > high_confidence THEN "high" ELSE "medium"

cnn_alerts(batch, preds, t) ==
  LET hot == SelectSeq(Indices(preds), LAMBDA i : is_attack(preds[i]))
  IN  Tuple([r \in DOMAIN hot |->
         LET i == hot[r]
             packet == attributed(batch, i)
         IN  Alert(t, "ML Detected: " \o attack_types(preds[i].label),
                   cnn_severity(preds[i].conf), "ml_network_analyzer",
                   <<Get(packet.src, <<"unknown">>), Get(packet.dst, <<"unknown">>),
                     preds[i].conf>>)])

\* the confidences the prediction loop records for ip, in the order it meets them
recorded(batch, preds, ip) ==
  LET hot == SelectSeq(Indices(preds), LAMBDA i : is_attack(preds[i])
                                     /\ Get(attributed(batch, i).src, EMPTY) = ip)
  IN  Tuple([r \in DOMAIN hot |-> preds[hot[r]].conf])

\* record_score dropping the new confidence once ten are kept
record_score_full(scores, conf) ==
  IF Len(scores) >= scores_limit THEN scores ELSE Append(scores, conf)

\* scores.append(confidence), then keep the last 10
record_score(scores, conf) ==
  LET s == Append(scores, conf)
  IN  IF Len(s) > scores_limit THEN LastN(s, scores_limit) ELSE s

\* record_score for confs[lo], ..., confs[hi], one after the other
RECURSIVE record_range(_, _, _, _)
record_range(scores, confs, lo, hi) ==
  IF lo > hi THEN scores
  ELSE IF lo = hi THEN record_score(scores, confs[lo])
  ELSE LET mid == (lo + hi) \div 2
           left == record_range(scores, confs, lo, mid)
       IN  IF Len(left) > 0 THEN record_range(left, confs, mid + 1, hi) ELSE left

record_scores(scores, confs) == record_range(scores, confs, 1, Len(confs))

\* the scores are recorded only under "if src_ip in self.ip_behavior"
cnn_record_entry(e, batch, preds) ==
  [k |-> e.k,
   v |-> [packets |-> e.v.packets, last_seen |-> e.v.last_seen,
          scores |-> record_scores(e.v.scores, recorded(batch, preds, e.k))]]

cnn_record(behavior, batch, preds) ==
  Tuple([n \in DOMAIN behavior |-> cnn_record_entry(behavior[n], batch, preds)])

svm_alerts(batch, preds, t) ==
  LET hot == SelectSeq(Indices(preds), LAMBDA i : preds[i] > 0)
  IN  Tuple([r \in DOMAIN hot |->
         LET packet == attributed(batch, hot[r])
         IN  Alert(t, "ML Detected: Suspicious Traffic Pattern", "medium",
                   "ml_network_analyzer",
                   <<Get(packet.src, <<"unknown">>), Get(packet.dst, <<"unknown">>)>>)])

\* A model's answer is [kind, preds]: kind "preds" with the predictions, kind
\* "raise" when predict raises, kind "none" when the model is not consulted.
NoAnswer == [kind |-> "none", preds |-> <<>>]

Raises == [kind |-> "raise", preds |-> <<>>]

Answer(preds) == [kind |-> "preds", preds |-> preds]

\* which predictions _run_ml_detection asks for: the CNN's when it is loaded,
\* the SVM's when it is loaded and the CNN part did not raise
cnn_asked(m, cnn_out) == IF m.cnn THEN cnn_out ELSE NoAnswer

svm_asked(m, cnn_out, svm_out) ==
  IF m.svm /\ cnn_asked(m, cnn_out).kind # "raise" THEN svm_out ELSE NoAnswer

\* _run_ml_detection(features, packets) with its own time.time() reading t2;
\* an exception of the CNN part is caught by the outer handler (the SVM is then
\* skipped), one of the SVM part by the inner handler
run_ml_detection(m, behavior, batch, cnn_out, svm_out, t2) ==
  LET cnn == cnn_asked(m, cnn_out)
      svm == svm_asked(m, cnn_out, svm_out)
  IN  [alerts |-> cnn_alerts(batch, cnn.preds, t2) \o svm_alerts(batch, svm.preds, t2),
       behavior |-> cnn_record(behavior, batch, cnn.preds)]

\* f"{src_ip}:{dst_ip}:{dst_port}" as the segments flow_key.split(':') gives
flow_key(p) == Get(p.src, EMPTY) \o Get(p.dst, EMPTY) \o <<p.dport>>

flow_keys(batch) == Distinct(Tuple([i \in DOMAIN batch |-> flow_key(batch[i])]))

\* the flow's events taken from the stored history as well as from the batch
flow_packets_stored(batch, key) ==
  SelectSeq(packet_history \o batch, LAMBDA p : flow_key(p) = key)

\* flows[flow_key], filled by the first loop of _analyze_flows from network_data
flow_packets(batch, key) == SelectSeq(batch, LAMBDA p : flow_key(p) = key)

\* src_ip, dst_ip, dst_port = flow_key.split(':') raises ValueError unless the
\* key has exactly three segments
unpacks(key) == Len(key) = 3

RECURSIVE sum_sizes(_, _, _)
sum_sizes(packets, lo, hi) ==
  IF lo > hi THEN 0
  ELSE IF lo = hi THEN packets[lo].size
  ELSE LET mid == (lo + hi) \div 2
       IN  sum_sizes(packets, lo, mid) + sum_sizes(packets, mid + 1, hi)

is_brute_force(packets, dst_port) ==
  Len(packets) > brute_force_count /\ dst_port \in brute_force_ports

is_large_transfer(packets, dst_ip) ==
  ~is_internal_ip(dst_ip) /\ sum_sizes(packets, 1, Len(packets)) > large_transfer_bytes

\* sum(scores) / len(scores) > anomaly_threshold, in hundredths
is_persistent(behavior, src_ip) ==
  /\ Has(behavior, src_ip)
  /\ Len(Lookup(behavior, src_ip).scores) > 0
  /\ Sum(Lookup(behavior, src_ip).scores)
       > anomaly_threshold * Len(Lookup(behavior, src_ip).scores)

\* avg_score as the description shows it: the sum and the count it is the
\* quotient of (the rounding to two decimals is left out)
avg_score(scores) == <<Sum(scores), Len(scores)>>

\* the three checks of one flow of _analyze_flows' second loop
flow_alerts(behavior, batch, key, t) ==
  LET src_ip == <<key[1]>>
      dst_ip == <<key[2]>>
      dst_port == key[3]
      packets == flow_packets(batch, key)
  IN  (IF is_brute_force(packets, dst_port)
       THEN <<Alert(t, "Potential Brute Force", "high", "ml_network_analyzer",
                    <<src_ip, dst_ip, dst_port>>)>>
       ELSE <<>>)
      \o (IF is_large_transfer(packets, dst_ip)
          THEN <<Alert(t, "Large Data Transfer", "medium", "ml_network_analyzer",
                       <<src_ip, dst_ip>>)>>
          ELSE <<>>)
      \o (IF is_persistent(behavior, src_ip)
          THEN <<Alert(t, "Persistent Anomalous Behavior", "high", "ml_network_analyzer",
                       <<src_ip>> \o avg_score(Lookup(behavior, src_ip).scores))>>
          ELSE <<>>)

\* _analyze_flows(network_data, current_time): the ValueError of a key that
\* does not unpack is not caught and ends the call
analyze_flows(behavior, batch, t) ==
  LET keys == flow_keys(batch)
  IN  IF \E i \in DOMAIN keys : ~unpacks(keys[i])
      THEN [raised |-> TRUE, alerts |-> <<>>]
      ELSE [raised |-> FALSE,
            alerts |-> Concat([i \in DOMAIN keys |-> flow_alerts(behavior, batch, keys[i], t)])]

\* _cleanup_old_data deleting the entries last seen at the cutoff as well
cleanup_old_data_at_cutoff(behavior, cutoff) ==
  SelectSeq(behavior, LAMBDA e : ~(e.v.last_seen <= cutoff))

\* _cleanup_old_data: the entries last seen before the cutoff are deleted
cleanup_old_data(behavior, cutoff) ==
  SelectSeq(behavior, LAMBDA e : ~(e.v.last_seen < cutoff))

\* detect with the flows analysed before the classifier's scores are recorded
detect_flows_first(m, behavior, batch, cnn_out, svm_out, t, t2) ==
  LET ml == IF Len(batch) >= batch_size
            THEN run_ml_detection(m, behavior, batch, cnn_out, svm_out, t2)
            ELSE [alerts |-> <<>>, behavior |-> behavior]
      fl == analyze_flows(behavior, batch, t)
  IN  [raised |-> fl.raised, alerts |-> ml.alerts \o fl.alerts, behavior |-> ml.behavior]

\* detect with the classifier run on a batch of any size
detect_any_size(m, behavior, batch, cnn_out, svm_out, t, t2) ==
  LET ml == run_ml_detection(m, behavior, batch, cnn_out, svm_out, t2)
      fl == analyze_flows(ml.behavior, batch, t)
  IN  [raised |-> fl.raised, alerts |-> ml.alerts \o fl.alerts, behavior |-> ml.behavior]

\* the part of analyze between the behaviour loop and the clean-up: the
\* classifier when the batch is large enough, then the flows
detect(m, behavior, batch, cnn_out, svm_out, t, t2) ==
  LET ml == IF Len(batch) >= batch_size
            THEN run_ml_detection(m, behavior, batch, cnn_out, svm_out, t2)
            ELSE [alerts |-> <<>>, behavior |-> behavior]
      fl == analyze_flows(ml.behavior, batch, t)
  IN  [raised |-> fl.raised, alerts |-> ml.alerts \o fl.alerts, behavior |-> ml.behavior]

\* the score log kept beside ip_behavior: emptied when an entry is created or
\* deleted, extended by every confidence recorded for a tracked IP
log_after(log, before, seen, after, batch, preds) ==
  [ip \in DOMAIN log |->
     IF ~Has(after, ip) THEN <<>>
     ELSE (IF Has(before, ip) THEN log[ip] ELSE <<>>)
          \o (IF Has(seen, ip) THEN recorded(batch, preds, ip) ELSE <<>>)]

\* MLNetworkAnalyzer.analyze(network_data) with time.time() readings t, and t2
\* in _run_ml_detection, and the loaded models answering cnn_out and svm_out;
\* seen is ip_behavior after the behaviour loop, res what the detectors give,
\* after is ip_behavior at the end of the call
MLAnalyze(batch, t, cnn_out, svm_out, t2) ==
  /\ calls' = calls + 1
  /\ clock' = IF Len(batch) >= batch_size THEN t2 ELSE t
  /\ UNCHANGED models
  /\ ingested' = ingested \o batch
  /\ IF batch = <<>>
     THEN /\ ml_call' = [batch |-> batch, now |-> t, outcome |-> "returned",
                         alerts |-> <<>>, cnn |-> NoAnswer, svm |-> NoAnswer,
                         before |-> ip_behavior]
          /\ UNCHANGED <<packet_history, ip_behavior, score_log>>
     ELSE \E seen \in {observe(ip_behavior, batch, t)} :
          \E res \in {detect(models, seen, batch, cnn_out, svm_out, t, t2)} :
          \E after \in {IF res.raised THEN res.behavior
                        ELSE cleanup_old_data(res.behavior, t - ml_horizon)} :
            LET big == Len(batch) >= batch_size
                cnn == IF big THEN cnn_asked(models, cnn_out) ELSE NoAnswer
                svm == IF big THEN svm_asked(models, cnn_out, svm_out) ELSE NoAnswer
            IN  /\ packet_history' = extend_history(packet_history, batch)
                /\ ip_behavior' = after
                /\ score_log' = log_after(score_log, ip_behavior, seen, after, batch,
                                         cnn.preds)
                /\ ml_call' = [batch |-> batch, now |-> t,
                               outcome |-> IF res.raised THEN "raised" ELSE "returned",
                               alerts |-> IF res.raised THEN <<>> ELSE res.alerts,
                               cnn |-> cnn, svm |-> svm, before |-> ip_behavior]
  /\ UNCHANGED <<net_vars, conc_vars>>

(***************************************************************************)
(* Inputs of the NetworkAnalyzer runs                                      *)
(***************************************************************************)
\* n events from src to the ports first .. first + n - 1
Sweep(src, first, n) ==
  Tuple([i \in 1..n |-> Pkt(src, A_PRIV, 40000, first + i - 1, 60)])

Deauths(mac, n) == Tuple([i \in 1..n |-> Frame("management", "deauth", mac)])

NetBatches ==
  { <<>>,
    Sweep(A_PUB, 1, 10),
    Sweep(A_PUB, 1, 9),
    Sweep(A_PUB, 10, 1) \o Sweep(A_PUB2, 22, 1) \o Sweep(A_PRIV, 22, 1),
    Deauths(M1, 4) \o <<Frame("management", "beacon", M1)>> \o Sweep(A_BAD, 445, 1),
    Deauths(M1, 1) \o <<Pkt(Absent, A_PRIV, 40000, 3389, 60)>> }

NetDeltas == {0, 2, 3, 5, 60}

NoCall == [batch |-> <<>>, now |-> 0, outcome |-> "none", alerts |-> <<>>]

NoMLCall ==
  [batch |-> <<>>, now |-> 0, outcome |-> "none", alerts |-> <<>>, cnn |-> NoAnswer,
   svm |-> NoAnswer, before |-> <<>>]

LogIPs == {A_PUB, A_PUB2, A_PRIV, A_V6, A_BAD}

NoLog == [ip \in LogIPs |-> <<>>]

NetInit ==
  /\ clock = 0
  /\ calls = 0
  /\ ip_port_access = <<>>
  /\ deauth_frames = <<>>
  /\ net_call = NoCall
  /\ models = [cnn |-> FALSE, svm |-> FALSE]
  /\ packet_history = <<>>
  /\ ip_behavior = <<>>
  /\ ml_call = NoMLCall
  /\ ingested = <<>>
  /\ score_log = NoLog
  /\ threads = FALSE
  /\ tasks = <<>>

NetNext ==
  /\ calls < MaxNetCalls
  /\ \E batch \in NetBatches, d \in NetDeltas : NetAnalyze(batch, clock + d)

SpecNet == NetInit /\ [][NetNext]_vars

(***************************************************************************)
(* Inputs of the MLNetworkAnalyzer runs                                    *)
(***************************************************************************)
\* n events of one flow, told apart by their source port
Run(src, dst, dport, n, size) ==
  Tuple([i \in 1..n |-> Pkt(src, dst, 40000 + i, dport, size)])

\* 64 events: two flows of 4 events of one source, a flow of 55 events of
\* another, then one event without src
MB_TWO ==
  Run(A_PUB, A_PRIV, 80, 4, 100) \o Run(A_PUB, A_PRIV, 81, 4, 100)
  \o Run(A_PUB2, A_PRIV, 443, 55, 100) \o <<Pkt(Absent, A_PRIV, 40000, 80, 100)>>

\* 64 events of an IPv6 source: 62 to port 22 of a private address, then
\* 120000 bytes to a public IPv6 address
MB_V6 == Run(A_V6, A_PRIV, 22, 62, 100) \o Run(A_V6, A_PUB6, 443, 2, 60000)

\* flows of 11 and of 10 events, and 120000 bytes to a string that is no address
MB_SMALL ==
  Run(A_PUB, A_PRIV, 22, 11, 100) \o Run(A_PUB, A_PRIV, 23, 10, 100)
  \o Run(A_PRIV, A_BAD, 443, 2, 60000)

\* the calls of a run: a batch and the seconds passed since the last reading
MLCalls ==
  { [batch |-> <<>>, passed |-> ml_horizon],
    [batch |-> Run(A_PUB2, A_PRIV, 80, 1, 100), passed |-> 3601],
    [batch |-> MB_SMALL, passed |-> 0],
    [batch |-> MB_TWO, passed |-> 0],
    [batch |-> MB_V6, passed |-> 0] }

\* every prediction an attack with a confidence of 0.86 .. 0.95
HotPreds(n) == Tuple([i \in 1..n |-> [label |-> 1 + (i % 6), conf |-> 86 + (i % 10)]])

\* one prediction more than events; benign and attack labels, confidences on
\* both sides of the two thresholds
MixPreds(n) ==
  Tuple([i \in 1..(n + 1) |->
           [label |-> i % 3, conf |-> <<60, 75, 76, 90, 91, 76, 78>>[1 + (i % 7)]]])

SvmPreds(n) == Tuple([i \in 1..n |-> IF i % 32 = 1 THEN 1 ELSE 0])

\* what the CNN and the SVM answer when asked (for a batch below batch_size:
\* what they would answer), and the seconds that pass between the clock
\* reading of analyze and the one of _run_ml_detection
MLOutcomes(batch) ==
  IF Len(batch) >= batch_size
  THEN { [cnn |-> Raises, svm |-> Answer(SvmPreds(Len(batch))), later |-> 1],
         [cnn |-> Answer(HotPreds(Len(batch))), svm |-> Raises, later |-> 0],
         [cnn |-> Answer(HotPreds(Len(batch))), svm |-> Raises, later |-> 1],
         [cnn |-> Answer(MixPreds(Len(batch))), svm |-> Answer(SvmPreds(Len(batch))),
          later |-> 1] }
  ELSE { [cnn |-> Answer(HotPreds(Len(batch))), svm |-> Answer(SvmPreds(Len(batch))),
          later |-> 0] }

MLInit ==
  /\ clock = 0
  /\ calls = 0
  /\ ip_port_access = <<>>
  /\ deauth_frames = <<>>
  /\ net_call = NoCall
  /\ models \in [cnn : BOOLEAN, svm : BOOLEAN]
  /\ packet_history = <<>>
  /\ ip_behavior = <<>>
  /\ ml_call = NoMLCall
  /\ ingested = <<>>
  /\ score_log = NoLog
  /\ threads = FALSE
  /\ tasks = <<>>

MLNext ==
  /\ calls < MaxMLCalls
  /\ \E c \in MLCalls :
       \E out \in MLOutcomes(c.batch) :
         MLAnalyze(c.batch, clock + c.passed, out.cnn, out.svm,
                   clock + c.passed + out.later)

SpecML == MLInit /\ [][MLNext]_vars

(***************************************************************************)
(* Runs that fill the packet history: batches of up to 1001 events, no     *)
(* model loaded                                                            *)
(***************************************************************************)
\* n events of one flow; the size field carries the number of the call
HistBatch(n, tag) == Run(A_PUB, A_PRIV, 80, n, tag)

HistSizes == {1, 63, 500, 999, 1001}

HistNext ==
  /\ calls < MaxHistCalls
  /\ \E n \in HistSizes :
       MLAnalyze(HistBatch(n, calls + 1), clock, NoAnswer, NoAnswer, clock)

SpecHist == NetInit /\ [][HistNext]_vars

(***************************************************************************)
(* Runs of both analyzers side by side, on batches too small for the       *)
(* classifier                                                              *)
(***************************************************************************)
MaxReapCalls == 4

ReapDeltas == {0, 2}

ReapNetBatches ==
  { Sweep(A_PUB, 10, 1) \o Sweep(A_PUB2, 22, 1) \o Sweep(A_PRIV, 22, 1),
    Deauths(M1, 4) \o <<Frame("management", "beacon", M1)>> \o Sweep(A_BAD, 445, 1) }

ReapMLBatches == { Run(A_PUB2, A_PRIV, 80, 1, 100), MB_SMALL }

ReapNet == \E batch \in ReapNetBatches, d \in ReapDeltas : NetAnalyze(batch, clock + d)

ReapML ==
  \E batch \in ReapMLBatches, d \in ReapDeltas :
    MLAnalyze(batch, clock + d, NoAnswer, NoAnswer, clock + d)

ReapNext == calls < MaxReapCalls /\ (ReapNet \/ ReapML)

SpecReap == NetInit /\ [][ReapNext]_vars

(***************************************************************************)
(* Runs of both analyzers in which empty batches follow batches that fill  *)
(* the trackers                                                            *)
(***************************************************************************)
MaxIdleCalls == 4

IdleDeltas == {0, 1}

\* a port scan and a deauthentication attack in one batch
IdleNetBatches == { <<>>, Sweep(A_PUB, 1, 10) \o Deauths(M1, 5) }

IdleMLBatches == { <<>>, MB_TWO }

IdleNet == \E batch \in IdleNetBatches, d \in IdleDeltas : NetAnalyze(batch, clock + d)

IdleML ==
  \E batch \in IdleMLBatches, d \in IdleDeltas :
    MLAnalyze(batch, clock + d,
              IF Len(batch) >= batch_size THEN Answer(HotPreds(Len(batch))) ELSE NoAnswer,
              IF Len(batch) >= batch_size THEN Answer(SvmPreds(Len(batch))) ELSE NoAnswer,
              clock + d)

IdleNext == calls < MaxIdleCalls /\ (IdleNet \/ IdleML)

SpecIdle == MLInit /\ [][IdleNext]_vars

(***************************************************************************)
(* Runs of MLNetworkAnalyzer in which the models answer with more or fewer *)
(* predictions than the batch has events                                   *)
(***************************************************************************)
MaxAttrCalls == 3

\* 64 events whose last one is the only one of its source
MB_LAST == Run(A_PUB2, A_PRIV, 443, 63, 100) \o Run(A_PUB, A_PRIV, 80, 1, 100)

AttrBatches == { MB_LAST, MB_TWO }

\* responses two predictions longer than the batch, four shorter, and one
\* longer with benign predictions among them
AttrOutcomes(n) ==
  { [cnn |-> Answer(HotPreds(n + 2)), svm |-> Answer(SvmPreds(n + 1))],
    [cnn |-> Answer(HotPreds(n - 4)), svm |-> Answer(SvmPreds(n - 4))],
    [cnn |-> Answer(MixPreds(n)), svm |-> Raises] }

AttrNext ==
  /\ calls < MaxAttrCalls
  /\ \E batch \in AttrBatches : \E out \in AttrOutcomes(Len(batch)) :
       MLAnalyze(batch, clock, out.cnn, out.svm, clock)

SpecAttr == MLInit /\ [][AttrNext]_vars

(***************************************************************************)
(* Runs of MLNetworkAnalyzer in which the same flows return call after call *)
(***************************************************************************)
MaxFlowCalls == 3

FlowDeltas == {0, 1}

\* 6 events to port 22 and 60000 bytes to a public address; 11 events to
\* port 22; 120000 bytes to the public address
FlowBatches ==
  { Run(A_PUB, A_PRIV, 22, 6, 100) \o Run(A_PRIV, A_PUB2, 443, 1, 60000),
    Run(A_PUB, A_PRIV, 22, 11, 100),
    Run(A_PRIV, A_PUB2, 443, 2, 60000) }

FlowNext ==
  /\ calls < MaxFlowCalls
  /\ \E batch \in FlowBatches, d \in FlowDeltas :
       MLAnalyze(batch, clock + d, NoAnswer, NoAnswer, clock + d)

SpecFlow == MLInit /\ [][FlowNext]_vars

(***************************************************************************)
(* Two analyze calls on one analyzer, in progress side by side.  Each call  *)
(* advances by the statements of analyze that read or write the trackers.   *)
(* On one event loop a call keeps the loop until it returns or suspends at  *)
(* an await; on threads of their own the calls can alternate after any      *)
(* statement.                                                               *)
(***************************************************************************)
Tasks == {1, 2}

\* a call in progress gives the event loop to another task only at an await
\* that suspends: NetworkAnalyzer.analyze has no await, and the only await of
\* MLNetworkAnalyzer.analyze is of _analyze_flows, a coroutine without an
\* await of its own, which therefore never suspends
yields_at_flows(task) == task.kind = "ml" /\ task.pc = "classified"

yields(task) == FALSE

mid_call(task) == task.pc \notin {"idle", "done", "raised"}

\* task i may take its next step
can_run(i) ==
  threads \/ \A j \in Tasks \ {i} : ~mid_call(tasks[j]) \/ yields(tasks[j])

\* lines 21-57 of NetworkAnalyzer.analyze: the clock reading and the loop over
\* the batch
NetTrack(i) ==
  /\ tasks[i].kind = "net" /\ tasks[i].pc = "idle" /\ can_run(i)
  /\ ip_port_access' = track_ports(ip_port_access, tasks[i].batch, clock)
  /\ deauth_frames' = track_deauth(deauth_frames, tasks[i].batch, clock)
  /\ tasks' = [tasks EXCEPT ![i] = [@ EXCEPT !.pc = "tracked", !.now = clock,
                                              !.alerts = watchlist_alerts(tasks[i].batch, clock)]]
  /\ UNCHANGED <<clock, calls, net_call, ml_vars, threads>>

\* lines 60-61
NetScan(i) ==
  /\ tasks[i].kind = "net" /\ tasks[i].pc = "tracked" /\ can_run(i)
  /\ tasks' = [tasks EXCEPT ![i] =
                 [@ EXCEPT !.pc = "scanned",
                           !.alerts = @ \o detect_port_scans(ip_port_access, tasks[i].now)]]
  /\ UNCHANGED <<clock, calls, net_vars, ml_vars, threads>>

\* lines 64-65
NetDeauth(i) ==
  /\ tasks[i].kind = "net" /\ tasks[i].pc = "scanned" /\ can_run(i)
  /\ tasks' = [tasks EXCEPT ![i] =
                 [@ EXCEPT !.pc = "checked",
                           !.alerts = @ \o detect_deauth_attacks(deauth_frames, tasks[i].now)]]
  /\ UNCHANGED <<clock, calls, net_vars, ml_vars, threads>>

\* lines 68-70
NetCleanup(i) ==
  /\ tasks[i].kind = "net" /\ tasks[i].pc = "checked" /\ can_run(i)
  /\ ip_port_access' = cleanup_ports(ip_port_access, tasks[i].now - net_horizon)
  /\ deauth_frames' = cleanup_deauth(deauth_frames, tasks[i].now - net_horizon)
  /\ tasks' = [tasks EXCEPT ![i] = [@ EXCEPT !.pc = "done"]]
  /\ UNCHANGED <<clock, calls, net_call, ml_vars, threads>>

\* lines 78-103 of MLNetworkAnalyzer.analyze: the clock reading, the history
\* and the behaviour loop
MLObserve(i) ==
  /\ tasks[i].kind = "ml" /\ tasks[i].pc = "idle" /\ can_run(i)
  /\ packet_history' = extend_history(packet_history, tasks[i].batch)
  /\ ip_behavior' = observe(ip_behavior, tasks[i].batch, clock)
  /\ tasks' = [tasks EXCEPT ![i] = [@ EXCEPT !.pc = "observed", !.now = clock]]
  /\ UNCHANGED <<clock, calls, net_vars, models, ml_call, ingested, score_log, threads>>

\* lines 105-112
MLClassify(i) ==
  /\ tasks[i].kind = "ml" /\ tasks[i].pc = "observed" /\ can_run(i)
  /\ \E ml \in {IF Len(tasks[i].batch) >= batch_size
                THEN run_ml_detection(models, ip_behavior, tasks[i].batch,
                                      tasks[i].cnn, tasks[i].svm, clock)
                ELSE [alerts |-> <<>>, behavior |-> ip_behavior]} :
       /\ ip_behavior' = ml.behavior
       /\ tasks' = [tasks EXCEPT ![i] = [@ EXCEPT !.pc = "classified", !.alerts = ml.alerts]]
  /\ UNCHANGED <<clock, calls, net_vars, models, packet_history, ml_call, ingested,
                 score_log, threads>>

\* lines 115-116: the await of _analyze_flows
MLFlows(i) ==
  /\ tasks[i].kind = "ml" /\ tasks[i].pc = "classified" /\ can_run(i)
  /\ \E fl \in {analyze_flows(ip_behavior, tasks[i].batch, tasks[i].now)} :
       tasks' = [tasks EXCEPT ![i] =
                   IF fl.raised THEN [@ EXCEPT !.pc = "raised", !.alerts = <<>>]
                   ELSE [@ EXCEPT !.pc = "flowed", !.alerts = @ \o fl.alerts]]
  /\ UNCHANGED <<clock, calls, net_vars, ml_vars, threads>>

\* lines 119-121
MLCleanup(i) ==
  /\ tasks[i].kind = "ml" /\ tasks[i].pc = "flowed" /\ can_run(i)
  /\ ip_behavior' = cleanup_old_data(ip_behavior, tasks[i].now - ml_horizon)
  /\ tasks' = [tasks EXCEPT ![i] = [@ EXCEPT !.pc = "done"]]
  /\ UNCHANGED <<clock, calls, net_vars, models, packet_history, ml_call, ingested,
                 score_log, threads>>

\* the calls two tasks make: of NetworkAnalyzer, batches that amount to a port
\* scan and to a deauthentication attack only together; of MLNetworkAnalyzer,
\* batches the classifier scores differently and one whose flow key does not
\* unpack
ConcCalls(kind) ==
  IF kind = "net"
  THEN { [kind |-> "net", batch |-> b, cnn |-> NoAnswer, svm |-> NoAnswer] :
           b \in { Sweep(A_PUB, 1, 5) \o Deauths(M1, 3),
                   Sweep(A_PUB, 6, 5) \o Deauths(M1, 2),
                   Sweep(A_PUB2, 22, 1) } }
  ELSE { [kind |-> "ml", batch |-> MB_TWO, cnn |-> Answer(HotPreds(Len(MB_TWO))),
          svm |-> Answer(SvmPreds(Len(MB_TWO)))],
         [kind |-> "ml", batch |-> MB_TWO, cnn |-> Answer(MixPreds(Len(MB_TWO))),
          svm |-> Raises],
         [kind |-> "ml", batch |-> Run(A_V6, A_PRIV, 22, 1, 100), cnn |-> NoAnswer,
          svm |-> NoAnswer] }

Pending(call) ==
  [kind |-> call.kind, batch |-> call.batch, cnn |-> call.cnn, svm |-> call.svm,
   pc |-> "idle", now |-> 0, alerts |-> <<>>]

ConcInit ==
  /\ clock = 0
  /\ calls = 0
  /\ ip_port_access = <<>>
  /\ deauth_frames = <<>>
  /\ net_call = NoCall
  /\ models = [cnn |-> TRUE, svm |-> TRUE]
  /\ packet_history = <<>>
  /\ ip_behavior = <<>>
  /\ ml_call = NoMLCall
  /\ ingested = <<>>
  /\ score_log = NoLog
  /\ threads \in BOOLEAN
  /\ \E kind \in {"net", "ml"} : \E c1 \in ConcCalls(kind), c2 \in ConcCalls(kind) :
       tasks = <<Pending(c1), Pending(c2)>>

ConcNext ==
  \E i \in Tasks :
    \/ NetTrack(i)
    \/ NetScan(i)
    \/ NetDeauth(i)
    \/ NetCleanup(i)
    \/ MLObserve(i)
    \/ MLClassify(i)
    \/ MLFlows(i)
    \/ MLCleanup(i)

SpecConc == ConcInit /\ [][ConcNext]_vars

(***************************************************************************)
(* Properties of NetworkAnalyzer.analyze, read off the last call           *)
(***************************************************************************)
\* the alerts of the last call that report a port scan by ip
port_scan_alerts(ip) ==
  SelectSeq(net_call.alerts,
            LAMBDA a : a.type = "Potential Port Scan" /\ a.severity = "high"
                       /\ a.description[1] = ip)

\* the destination ports of ip's stored accesses stamped in (now - 5, now]
ports_in_window(ip) ==
  IF Has(ip_port_access, ip)
  THEN {a[2] : a \in {b \in Range(Lookup(ip_port_access, ip)) :
                        b[1] > net_call.now - 5 /\ b[1] <= net_call.now}}
  ELSE {}

port_scan_reported(ip) ==
  Len(port_scan_alerts(ip)) = IF Cardinality(ports_in_window(ip)) >= 10 THEN 1 ELSE 0

\* C1 as stated: after any analyze call, every source IP whose stored accesses
\* of the last 5 seconds cover at least 10 distinct ports has exactly one
\* high-severity "Potential Port Scan" alert among the returned alerts, and
\* every other IP has none.
C1_AnyCall == net_call.outcome = "returned" => \A ip \in LogIPs : port_scan_reported(ip)

\* C1, amended: after any analyze call with a non-empty batch, every source IP
\* whose stored accesses of the last 5 seconds cover at least 10 distinct
\* ports has exactly one high-severity "Potential Port Scan" alert among the
\* returned alerts, and every IP with 9 or fewer has none.
C1_NonEmptyCall ==
  (net_call.outcome = "returned" /\ net_call.batch # <<>>)
    => \A ip \in LogIPs : port_scan_reported(ip)

\* a call whose batch holds fewer than 10 events completes a scan begun in an
\* earlier call, and reports it
C1_Witness ==
  /\ net_call.outcome = "returned"
  /\ net_call.batch # <<>>
  /\ Len(net_call.batch) < 10
  /\ \E ip \in LogIPs : Cardinality(ports_in_window(ip)) >= 10
                        /\ Len(port_scan_alerts(ip)) = 1

\* the stored stamps of a tracking dict
stamps_of_ports ==
  UNION {{a[1] : a \in Range(ip_port_access[i].v)} : i \in DOMAIN ip_port_access}

stamps_of_deauth == UNION {Range(deauth_frames[i].v) : i \in DOMAIN deauth_frames}

\* C3: after any analyze call at time now returns, no stored port access and
\* no stored deauth frame is older than 60 seconds relative to now, no
\* tracking dict holds a key with an empty list, and no tracked IP has
\* last_seen < now - 3600: the clean-up has run, empty batch or not.
C3_ReaperEveryCall ==
  net_call.outcome = "returned" =>
    /\ \A x \in stamps_of_ports \cup stamps_of_deauth : ~(x < net_call.now - 60)
    /\ \A i \in DOMAIN ip_port_access : ip_port_access[i].v # <<>>
    /\ \A i \in DOMAIN deauth_frames : deauth_frames[i].v # <<>>
    /\ \A i \in DOMAIN ip_behavior : ~(ip_behavior[i].v.last_seen < net_call.now - 3600)

(***************************************************************************)
(* Properties of MLNetworkAnalyzer.analyze, read off the last call         *)
(***************************************************************************)
\* the flows (src, dst, dst_port) of the last batch
flows_of_call ==
  {<<Get(p.src, EMPTY), Get(p.dst, EMPTY), p.dport>> : p \in Range(ml_call.batch)}

events_of_flow(f) ==
  SelectSeq(ml_call.batch,
            LAMBDA p : <<Get(p.src, EMPTY), Get(p.dst, EMPTY), p.dport>> = f)

brute_force_alerts(f) ==
  SelectSeq(ml_call.alerts,
            LAMBDA a : a.type = "Potential Brute Force" /\ a.severity = "high"
                       /\ a.description = f)

\* C2: whatever the src and dst values of a flow of the batch are, analyze
\* returns exactly one high-severity "Potential Brute Force" alert for it
\* when it has more than 10 events and its dst_port is 22, 23, 3389 or 445,
\* and none otherwise.
C2_BruteForcePerFlow ==
  ml_call.outcome # "none" =>
    \A f \in flows_of_call :
      Len(brute_force_alerts(f))
        = IF Len(events_of_flow(f)) > 10 /\ f[3] \in {22, 23, 3389, 445} THEN 1 ELSE 0

persistent_alerts(ip) ==
  SelectSeq(ml_call.alerts,
            LAMBDA a : a.type = "Persistent Anomalous Behavior" /\ a.severity = "high"
                       /\ a.description[1] = ip)

\* the mean of scores is greater than 0.85
mean_above_threshold(scores) == Len(scores) > 0 /\ Sum(scores) > 85 * Len(scores)

\* C4: in every analyze call, each tracked IP whose recorded scores average
\* more than 0.85 gets exactly one high-severity "Persistent Anomalous
\* Behavior" alert, however many flows it has in the batch and whether or not
\* it is in the batch, and an IP without recorded scores gets none.
C4_OnePersistentAlertPerIP ==
  ml_call.outcome = "returned" =>
    \A i \in DOMAIN ip_behavior :
      Len(persistent_alerts(ip_behavior[i].k))
        = IF mean_above_threshold(ip_behavior[i].v.scores) THEN 1 ELSE 0

\* C5: a detector that fails inside an analyze call is caught: the call
\* raises no error to its caller.
C5_FailureIsolated == ml_call.outcome # "raised"

\* the classifier gave the last call no predictions: no model was loaded, the
\* batch was too small to consult one, or the prediction raised
no_predictions == ml_call.cnn.kind # "preds" /\ ml_call.svm.kind # "preds"

\* what the flow heuristics alone return for the last call's batch and state
heuristic_alerts ==
  analyze_flows(observe(ml_call.before, ml_call.batch, ml_call.now),
                ml_call.batch, ml_call.now).alerts

\* C6: when no model is loaded or the prediction raises, analyze raises no
\* error and returns exactly the alerts of the flow heuristics.
C6_DegradesToHeuristics ==
  (ml_call.outcome # "none" /\ no_predictions)
    => ml_call.outcome = "returned" /\ ml_call.alerts = heuristic_alerts

\* the last min(n, Len(s)) elements of s, in order
most_recent(s, n) ==
  LET m == IF Len(s) < n THEN Len(s) ELSE n
  IN  [i \in 1..m |-> s[Len(s) - m + i]]

\* C7: after any sequence of analyze calls the packet history has at most
\* 1000 events and is the most recent min(N, 1000) of the N events ingested,
\* in arrival order.
C7_HistoryIsMostRecent ==
  /\ Len(packet_history) <= 1000
  /\ packet_history = most_recent(ingested, 1000)

\* more than 1500 events were ingested, in several batches, and 1000 are kept
C7_Witness ==
  /\ calls > 1
  /\ Len(ingested) >= 1500
  /\ Len(packet_history) = 1000
  /\ packet_history # ingested

\* C8: in every reachable state the scores of every tracked IP are at most 10
\* and are the most recent min(k, 10) of the k confidences recorded for the
\* IP since its entry was created, in recording order; the average a
\* "Persistent Anomalous Behavior" alert reports is the mean of those.
C8_ScoresAreMostRecentTen ==
  \A i \in DOMAIN ip_behavior :
    LET ip == ip_behavior[i].k
        kept == most_recent(score_log[ip], 10)
    IN  /\ Len(ip_behavior[i].v.scores) <= 10
        /\ ip_behavior[i].v.scores = kept
        /\ \A a \in Range(persistent_alerts(ip)) :
             a.description = <<ip, Sum(kept), Len(kept)>> /\ mean_above_threshold(kept)

\* an IP with 15 or more confidences recorded keeps the last 10 and is
\* reported for their mean
C8_Witness ==
  \E i \in DOMAIN ip_behavior :
    /\ Len(score_log[ip_behavior[i].k]) >= 15
    /\ Len(ip_behavior[i].v.scores) = 10
    /\ Len(persistent_alerts(ip_behavior[i].k)) > 0

\* the predictions of the last call that are attacks, in order
attack_predictions ==
  SelectSeq(ml_call.cnn.preds, LAMBDA q : q.label # 0 /\ q.conf > 75)

\* the alerts of the last call that come from the CNN's predictions
prediction_alerts ==
  SelectSeq(ml_call.alerts,
            LAMBDA a : a.type \in {"ML Detected: " \o attack_types(l) : l \in 1..6})

\* the confidences of the attack predictions attributed to an event of ip
confidences_for(ip) ==
  LET n == Len(ml_call.batch)
      at(i) == ml_call.batch[IF i <= n THEN i ELSE n]
      hot == SelectSeq([i \in 1..Len(ml_call.cnn.preds) |-> i],
                       LAMBDA i : /\ ml_call.cnn.preds[i].label # 0
                                  /\ ml_call.cnn.preds[i].conf > 75
                                  /\ Get(at(i).src, EMPTY) = ip)
  IN  [r \in DOMAIN hot |-> ml_call.cnn.preds[hot[r]].conf]

scores_before(ip) ==
  IF Has(ml_call.before, ip) THEN Lookup(ml_call.before, ip).scores ELSE <<>>

\* C9: for each classifier prediction with a label other than 0 and a
\* confidence above 0.75 analyze returns one classifier alert, of severity
\* high when the confidence is above 0.9 and medium otherwise, and appends the
\* confidence to the scores of the attributed event's source IP; for every
\* other prediction it returns no alert and records no score.
C9_AlertAndScorePerPrediction ==
  ml_call.cnn.kind = "preds" =>
    /\ Len(prediction_alerts) = Len(attack_predictions)
    /\ \A r \in DOMAIN prediction_alerts :
         /\ prediction_alerts[r].severity
              = IF attack_predictions[r].conf > 90 THEN "high" ELSE "medium"
         /\ prediction_alerts[r].description[3] = attack_predictions[r].conf
    /\ \A i \in DOMAIN ip_behavior :
         ip_behavior[i].v.scores
           = most_recent(scores_before(ip_behavior[i].k)
                           \o confidences_for(ip_behavior[i].k), 10)

\* the source IPs of the last batch
sources_of_call == {Get(p.src, EMPTY) : p \in Range(ml_call.batch)}

\* C10: within one analyze call the classifier's scores are recorded before
\* the persistent-anomaly check reads them: every source IP of the batch is
\* reported exactly when its scores after the call's recording average more
\* than 0.85, and the reported average is the mean of those scores.
C10_ScoresRecordedFirst ==
  ml_call.outcome = "returned" =>
    \A ip \in sources_of_call :
      Has(ip_behavior, ip) =>
        LET scores == Lookup(ip_behavior, ip).scores
        IN  /\ (Len(persistent_alerts(ip)) > 0) = mean_above_threshold(scores)
            /\ \A a \in Range(persistent_alerts(ip)) :
                 a.description = <<ip, Sum(scores), Len(scores)>>

\* an IP that did not qualify before the call is reported in the call that
\* records its scores
C10_Witness ==
  /\ ml_call.outcome = "returned"
  /\ ml_call.cnn.kind = "preds"
  /\ \E ip \in sources_of_call :
       /\ Len(confidences_for(ip)) > 0
       /\ ~mean_above_threshold(scores_before(ip))
       /\ Len(persistent_alerts(ip)) > 0

\* C11: analyze is deterministic for a given input and clock: the result of
\* a call depends on the batch, the classifier response and the one reading
\* now only, so every returned alert is stamped with that now and no second
\* clock reading shows in the result.
C11_OneClockReading ==
  ml_call.outcome = "returned" =>
    \A a \in Range(ml_call.alerts) : a.timestamp = ml_call.now

\* the watchlist alerts of the last NetworkAnalyzer call for src and port
watchlist_alerts_for(src, port) ==
  SelectSeq(net_call.alerts,
            LAMBDA a : /\ a.type \in {"SSH Access Attempt", "RDP Access Attempt",
                                      "SMB Access Attempt"}
                       /\ a.severity = "medium"
                       /\ a.description = <<src, port>>)

\* the events of the last NetworkAnalyzer batch with this src and port
events_with(src, port) ==
  SelectSeq(net_call.batch, LAMBDA p : Get(p.src, EMPTY) = src /\ p.dport = port)

\* C12: every event of a batch with dst_port 22, 3389 or 445 and a src that is
\* not private (an unparseable or missing src counting as not private) gets
\* exactly one medium-severity watchlist alert; an event with a private src or
\* another dst_port gets none.
C12_WatchlistPerEvent ==
  net_call.outcome = "returned" =>
    \A p \in Range(net_call.batch) :
      LET src == Get(p.src, EMPTY)
      IN  Len(watchlist_alerts_for(src, p.dport))
            = IF p.dport \in {22, 3389, 445} /\ ~is_internal_ip(src)
              THEN Len(events_with(src, p.dport))
              ELSE 0

large_transfer_alerts(src, dst) ==
  SelectSeq(ml_call.alerts,
            LAMBDA a : a.type = "Large Data Transfer" /\ a.severity = "medium"
                       /\ a.description = <<src, dst>>)

size_of_flow(f) ==
  LET events == events_of_flow(f)
  IN  Sum(Tuple([i \in DOMAIN events |-> events[i].size]))

\* the destination of flow f is not private and its events sum to more than
\* 100000 bytes
is_large_flow(f) == ~is_internal_ip(f[2]) /\ size_of_flow(f) > 100000

\* C13: every flow of a batch whose destination is not private (an
\* unparseable destination counting as not private) and whose events sum to
\* more than 100000 bytes gets exactly one medium-severity "Large Data
\* Transfer" alert; a flow with a private destination or a sum of 100000 or
\* less gets none.
C13_LargeTransferPerFlow ==
  ml_call.outcome # "none" =>
    \A f \in flows_of_call :
      Len(large_transfer_alerts(f[1], f[2]))
        = Cardinality({g \in flows_of_call :
                         g[1] = f[1] /\ g[2] = f[2] /\ is_large_flow(g)})

MACs == {M1}

deauth_alerts(mac) ==
  SelectSeq(net_call.alerts,
            LAMBDA a : a.type = "WiFi Deauthentication Attack" /\ a.severity = "high"
                       /\ a.description[1] = mac)

\* the stored stamps of mac that lie in (now - 3, now]
frames_in_window(mac) ==
  IF Has(deauth_frames, mac)
  THEN SelectSeq(Lookup(deauth_frames, mac),
                 LAMBDA x : x > net_call.now - 3 /\ x <= net_call.now)
  ELSE <<>>

\* the management/deauth frames of mac in a batch
deauth_frames_in(batch, mac) ==
  SelectSeq(batch,
            LAMBDA p : p.frame_type = "management" /\ p.frame_subtype = "deauth"
                       /\ p.src_mac = mac)

deauth_frames_of_call(mac) == deauth_frames_in(net_call.batch, mac)

\* the number of stamps t stored for mac in the tracking dict frames
stamps_at(frames, mac, t) ==
  IF Has(frames, mac) THEN Len(SelectSeq(Lookup(frames, mac), LAMBDA x : x = t)) ELSE 0

deauth_reported(mac) ==
  Len(deauth_alerts(mac)) = IF Len(frames_in_window(mac)) >= 5 THEN 1 ELSE 0

\* C14 as stated: after any analyze call, every source MAC with at least 5
\* stored deauth stamps in the last 3 seconds has exactly one high-severity
\* "WiFi Deauthentication Attack" alert among the returned alerts, and every
\* MAC with 4 or fewer has none.
C14_AnyCall == net_call.outcome = "returned" => \A mac \in MACs : deauth_reported(mac)

\* C14, amended: after any analyze call with a non-empty batch, every source
\* MAC with at least 5 stored deauth stamps in the last 3 seconds has exactly
\* one high-severity "WiFi Deauthentication Attack" alert among the returned
\* alerts and every MAC with 4 or fewer has none; and such a call stores one
\* stamp now for each management/deauth frame of the batch and none for any
\* other frame.
C14_NonEmptyCall ==
  /\ [](net_call.outcome = "returned" /\ net_call.batch # <<>>
          => \A mac \in MACs : deauth_reported(mac))
  /\ [][net_call'.batch # <<>> =>
          \A mac \in MACs :
            stamps_at(deauth_frames', mac, net_call'.now)
              = stamps_at(deauth_frames, mac, net_call'.now)
                + Len(deauth_frames_in(net_call'.batch, mac))]_vars

\* a call with one deauth frame and a frame of another kind completes an
\* attack begun in an earlier call, and reports it
C14_Witness ==
  /\ net_call.outcome = "returned"
  /\ \E mac \in MACs :
       /\ Len(deauth_frames_of_call(mac)) \in 1..4
       /\ Len(deauth_frames_of_call(mac)) < Len(net_call.batch)
       /\ Len(frames_in_window(mac)) >= 5
       /\ Len(deauth_alerts(mac)) = 1

\* the cutoffs the clean-up is tried with
Cutoffs == {clock - ml_horizon, clock - net_horizon, clock - 1, clock}

\* C15: applying the clean-up twice with the same cutoff leaves each tracking
\* dict (ip_behavior, ip_port_access, deauth_frames) as one application
\* leaves it.
C15_ReaperIdempotent ==
  \A c \in Cutoffs :
    /\ cleanup_ports(cleanup_ports(ip_port_access, c), c) = cleanup_ports(ip_port_access, c)
    /\ cleanup_deauth(cleanup_deauth(deauth_frames, c), c) = cleanup_deauth(deauth_frames, c)
    /\ cleanup_old_data(cleanup_old_data(ip_behavior, c), c)
         = cleanup_old_data(ip_behavior, c)

\* all three dicts hold entries, and for each there is a cutoff whose
\* clean-up removes some of it
C15_Witness ==
  /\ \E c \in Cutoffs : cleanup_ports(ip_port_access, c) \notin {<<>>, ip_port_access}
  /\ \E c \in Cutoffs : cleanup_deauth(deauth_frames, c) # deauth_frames
  /\ \E c \in Cutoffs : cleanup_old_data(ip_behavior, c) \notin {<<>>, ip_behavior}

\* the number of the call's events whose src is ip
events_from(ip) == Cardinality({i \in DOMAIN ml_call.batch : Get(ml_call.batch[i].src, EMPTY) = ip})

\* C16: across an analyze call, the packet count of an IP tracked before and
\* after it grows by exactly the number of the batch's events with that source
\* (so it never decreases); every IP that is a source in the batch is tracked
\* after the call with last_seen = now; and an entry tracked before the call
\* and gone after it had last_seen < now - 3600.
C16_EntityBehavior ==
  /\ \A ip \in Keys(ml_call.before) \cap Keys(ip_behavior) :
        Lookup(ip_behavior, ip).packets = Lookup(ml_call.before, ip).packets + events_from(ip)
  /\ \A ip \in sources_of_call :
        Truthy(ip) => Has(ip_behavior, ip) /\ Lookup(ip_behavior, ip).last_seen = ml_call.now
  /\ \A ip \in Keys(ml_call.before) \ Keys(ip_behavior) :
        Lookup(ml_call.before, ip).last_seen < ml_call.now - ml_horizon

\* a call that added to the count of an IP tracked before it and deleted the
\* entry of another
C16_Witness ==
  /\ \E ip \in Keys(ml_call.before) \cap Keys(ip_behavior) : events_from(ip) > 0
  /\ Keys(ml_call.before) \ Keys(ip_behavior) # {}

\* C17: an analyze call of either analyzer with an empty batch returns, and
\* returns no alert, whatever the trackers hold.
C17_EmptyBatch ==
  /\ (net_call.outcome # "none" /\ net_call.batch = <<>>)
       => net_call.outcome = "returned" /\ net_call.alerts = <<>>
  /\ (ml_call.outcome # "none" /\ ml_call.batch = <<>>)
       => ml_call.outcome = "returned" /\ ml_call.alerts = <<>>

\* the last call of each analyzer had an empty batch, at a time when the
\* stored accesses amount to a port scan, the stored frames to a
\* deauthentication attack, and a tracked IP's scores average more than 0.85
C17_Witness ==
  /\ net_call.outcome = "returned" /\ net_call.batch = <<>>
  /\ detect_port_scans(ip_port_access, net_call.now) # <<>>
  /\ detect_deauth_attacks(deauth_frames, net_call.now) # <<>>
  /\ ml_call.outcome = "returned" /\ ml_call.batch = <<>>
  /\ \E ip \in Keys(ip_behavior) : mean_above_threshold(Lookup(ip_behavior, ip).scores)

\* the trackers and the outcome of one whole NetworkAnalyzer.analyze call
net_serial(st, call) ==
  LET access == track_ports(st.access, call.batch, clock)
      frames == track_deauth(st.frames, call.batch, clock)
  IN  [access |-> cleanup_ports(access, clock - net_horizon),
       frames |-> cleanup_deauth(frames, clock - net_horizon),
       history |-> st.history, behavior |-> st.behavior,
       outcomes |-> Append(st.outcomes,
                           [pc |-> "done",
                            alerts |-> watchlist_alerts(call.batch, clock)
                                       \o detect_port_scans(access, clock)
                                       \o detect_deauth_attacks(frames, clock)])]

\* the trackers and the outcome of one whole MLNetworkAnalyzer.analyze call
ml_serial(st, call) ==
  LET seen == observe(st.behavior, call.batch, clock)
      res == detect(models, seen, call.batch, call.cnn, call.svm, clock, clock)
  IN  [access |-> st.access, frames |-> st.frames,
       history |-> extend_history(st.history, call.batch),
       behavior |-> IF res.raised THEN res.behavior
                    ELSE cleanup_old_data(res.behavior, clock - ml_horizon),
       outcomes |-> Append(st.outcomes,
                           IF res.raised THEN [pc |-> "raised", alerts |-> <<>>]
                           ELSE [pc |-> "done", alerts |-> res.alerts])]

one_call(st, call) == IF call.kind = "net" THEN net_serial(st, call) ELSE ml_serial(st, call)

\* the calls of tasks i and j made one after the other on a new analyzer
serial(i, j) ==
  one_call(one_call([access |-> <<>>, frames |-> <<>>, history |-> <<>>,
                     behavior |-> <<>>, outcomes |-> <<>>], tasks[i]), tasks[j])

all_returned == \A i \in Tasks : tasks # <<>> /\ ~mid_call(tasks[i]) /\ tasks[i].pc # "idle"

outcome_of(i) == [pc |-> tasks[i].pc, alerts |-> tasks[i].alerts]

\* the trackers and both calls' outcomes are those of the calls made in the
\* order i, j
as_serial(i, j) ==
  LET r == serial(i, j)
  IN  /\ ip_port_access = r.access
      /\ deauth_frames = r.frames
      /\ packet_history = r.history
      /\ ip_behavior = r.behavior
      /\ outcome_of(i) = r.outcomes[1]
      /\ outcome_of(j) = r.outcomes[2]

one_at_a_time == Cardinality({i \in DOMAIN tasks : mid_call(tasks[i])}) <= 1

\* C18 as stated: however two analyze calls on one analyzer are issued
\* concurrently, at most one of them is between its tracker updates and its
\* return, and when both are over their outcomes and the trackers are those
\* of one of the two serial orders.
C18_AnyTwoCalls ==
  /\ one_at_a_time
  /\ all_returned => as_serial(1, 2) \/ as_serial(2, 1)

\* C18: two analyze calls issued concurrently as tasks of one event loop run
\* one after the other, since analyze never suspends: at most one of them is
\* between its tracker updates and its return, and when both are over their
\* outcomes and the trackers are those of one of the two serial orders.
C18_OneEventLoop ==
  ~threads => /\ one_at_a_time
              /\ all_returned => as_serial(1, 2) \/ as_serial(2, 1)

\* both tasks of one event loop are over, and the order mattered: the result
\* is that of one serial order and not of the other
C18_Witness ==
  /\ ~threads
  /\ all_returned
  /\ as_serial(1, 2) # as_serial(2, 1)
  /\ \E i \in Tasks : tasks[i].alerts # <<>>

\* the alerts of the last call that come from the CNN's or the SVM's predictions
classifier_alerts ==
  SelectSeq(ml_call.alerts,
            LAMBDA a : a.type \in {"ML Detected: " \o attack_types(l) : l \in 1..6}
                                   \cup {"ML Detected: Suspicious Traffic Pattern"})

\* C19: an analyze call whose batch has fewer than 64 events returns no
\* classifier alert and leaves the scores of every tracked IP as they were
\* (an entry it creates has no score).
C19_SmallBatchSkipsClassifier ==
  (ml_call.outcome # "none" /\ Len(ml_call.batch) < batch_size) =>
    /\ classifier_alerts = <<>>
    /\ \A ip \in Keys(ip_behavior) : Lookup(ip_behavior, ip).scores = scores_before(ip)

\* a call with a batch below 64 events, from an IP that has scores, that
\* returned alerts
C19_Witness ==
  /\ ml_call.outcome = "returned"
  /\ ml_call.batch # <<>> /\ Len(ml_call.batch) < batch_size
  /\ ml_call.alerts # <<>>
  /\ \E ip \in sources_of_call : Has(ip_behavior, ip) /\ scores_before(ip) # <<>>

\* the event of the last batch that prediction i belongs to by the claim: event
\* i, and the last event for an index past the end
event_of(i) ==
  ml_call.batch[IF i <= Len(ml_call.batch) THEN i ELSE Len(ml_call.batch)]

\* the indices of the CNN's attack predictions, and of the SVM's positive ones
cnn_hits ==
  SelectSeq([i \in 1..Len(ml_call.cnn.preds) |-> i],
            LAMBDA i : ml_call.cnn.preds[i].label # 0 /\ ml_call.cnn.preds[i].conf > 75)

svm_hits ==
  SelectSeq([i \in 1..Len(ml_call.svm.preds) |-> i], LAMBDA i : ml_call.svm.preds[i] > 0)

pattern_alerts ==
  SelectSeq(ml_call.alerts, LAMBDA a : a.type = "ML Detected: Suspicious Traffic Pattern")

names_event(alert, i) ==
  /\ alert.description[1] = Get(event_of(i).src, <<"unknown">>)
  /\ alert.description[2] = Get(event_of(i).dst, <<"unknown">>)

\* C20: the r-th classifier alert a call returns belongs to the r-th alerting
\* prediction and names the src and dst of the event at that prediction's
\* index, or of the last event when the index is past the end of the batch;
\* the confidences are recorded under the source IPs of the same events. (A
\* response shorter than the batch therefore reaches only its first events.)
C20_OverflowToLastEvent ==
  /\ ml_call.outcome = "returned" =>
        /\ Len(prediction_alerts) = Len(cnn_hits)
        /\ \A r \in DOMAIN prediction_alerts : names_event(prediction_alerts[r], cnn_hits[r])
        /\ Len(pattern_alerts) = Len(svm_hits)
        /\ \A r \in DOMAIN pattern_alerts : names_event(pattern_alerts[r], svm_hits[r])
  /\ ml_call.outcome # "none" =>
        \A ip \in Keys(ip_behavior) :
          Lookup(ip_behavior, ip).scores
            = most_recent(scores_before(ip)
                            \o [r \in DOMAIN SelectSeq(cnn_hits,
                                    LAMBDA i : Get(event_of(i).src, EMPTY) = ip) |->
                                  ml_call.cnn.preds[SelectSeq(cnn_hits,
                                    LAMBDA i : Get(event_of(i).src, EMPTY) = ip)[r]].conf], 10)

\* a returned call whose response was longer than the batch, with an alerting
\* prediction past the end: its alert names the last event, whose source has
\* the confidence as its latest score
C20_Witness ==
  /\ ml_call.outcome = "returned"
  /\ Len(ml_call.cnn.preds) > Len(ml_call.batch)
  /\ cnn_hits # <<>>
  /\ cnn_hits[Len(cnn_hits)] > Len(ml_call.batch)
  /\ LET last == ml_call.batch[Len(ml_call.batch)]
         conf == ml_call.cnn.preds[cnn_hits[Len(cnn_hits)]].conf
     IN  /\ Truthy(Get(last.src, EMPTY))
         /\ \A i \in 1..(Len(ml_call.batch) - 1) : ml_call.batch[i].src # last.src
         /\ prediction_alerts[Len(prediction_alerts)].description
              = <<last.src, last.dst, conf>>
         /\ Lookup(ip_behavior, last.src).scores[Len(Lookup(ip_behavior, last.src).scores)]
              = conf

\* the flows (src, dst, dst_port) of every event handed to analyze so far
flows_so_far ==
  {<<Get(p.src, EMPTY), Get(p.dst, EMPTY), p.dport>> : p \in Range(ingested)}

\* the events of flow f among all those handed to analyze so far
events_so_far(f) ==
  SelectSeq(ingested, LAMBDA p : <<Get(p.src, EMPTY), Get(p.dst, EMPTY), p.dport>> = f)

\* C21: the brute-force and large-transfer alerts of a call that returns are
\* decided by the events of the current batch alone: of all the flows seen so
\* far, a flow gets a "Potential Brute Force" alert exactly when it has more
\* than 10 events in this batch (and a brute-force port), and a "Large Data
\* Transfer" alert exactly when its events of this batch sum to more than
\* 100000 bytes (and its destination is not private), whatever earlier
\* batches held.
C21_FlowsBatchScoped ==
  ml_call.outcome = "returned" =>
    \A f \in flows_so_far :
      /\ Len(brute_force_alerts(f))
           = IF Len(events_of_flow(f)) > 10 /\ f[3] \in {22, 23, 3389, 445} THEN 1 ELSE 0
      /\ (\A g \in flows_so_far : g[1] = f[1] /\ g[2] = f[2] => g = f)
           => Len(large_transfer_alerts(f[1], f[2])) = IF is_large_flow(f) THEN 1 ELSE 0

\* a call returned without brute-force or large-transfer alert although one
\* flow of its batch has more than 10 events to port 22 over the calls so far
\* and another more than 100000 bytes to a public address
C21_Witness ==
  /\ ml_call.outcome = "returned"
  /\ \E f \in flows_of_call :
       /\ f[3] = 22 /\ Len(events_of_flow(f)) = 6 /\ Len(events_so_far(f)) = 12
       /\ brute_force_alerts(f) = <<>>
  /\ \E f \in flows_of_call :
       /\ ~is_internal_ip(f[2]) /\ size_of_flow(f) = 60000
       /\ Sum(Tuple([i \in DOMAIN events_so_far(f) |-> events_so_far(f)[i].size])) > 100000
       /\ large_transfer_alerts(f[1], f[2]) = <<>>

\* the accesses stored for ip in the tracking dict access
accesses_of(access, ip) == IF Has(access, ip) THEN Lookup(access, ip) ELSE <<>>

\* the accesses a batch analysed at t adds for ip
accesses_in(batch, ip, t) ==
  LET own == SelectSeq(batch, LAMBDA p : Get(p.src, EMPTY) = ip)
  IN  [i \in DOMAIN own |-> <<t, own[i].dport>>]

\* C22: after a non-empty analyze call at now, an IP whose stored accesses
\* stamped in (now - 5, now] cover at least 10 distinct ports is reported once,
\* whichever calls stored them and whether or not the batch has an event of
\* it, and an IP whose latest access is 5 seconds old or more is not reported;
\* the call keeps, beside the accesses of its batch, every stored access
\* younger than 60 seconds and no other.
C22_PortsAccumulate ==
  /\ [](net_call.outcome = "returned" /\ net_call.batch # <<>>
          => \A ip \in LogIPs :
               /\ Cardinality(ports_in_window(ip)) >= 10 => Len(port_scan_alerts(ip)) = 1
               /\ (\A a \in Range(accesses_of(ip_port_access, ip)) :
                      net_call.now >= a[1] + 5)
                    => port_scan_alerts(ip) = <<>>)
  /\ [][net_call'.batch # <<>> =>
          \A ip \in LogIPs :
            accesses_of(ip_port_access', ip)
              = SelectSeq(accesses_of(ip_port_access, ip)
                            \o accesses_in(net_call'.batch, ip, net_call'.now),
                          LAMBDA a : a[1] > net_call'.now - 60)]_vars

\* a call whose batch has no event of an IP reports that IP's scan again, from
\* the accesses earlier calls stored
C22_Witness ==
  /\ net_call.outcome = "returned"
  /\ net_call.batch # <<>>
  /\ \E ip \in LogIPs :
       /\ accesses_in(net_call.batch, ip, net_call.now) = <<>>
       /\ Cardinality(ports_in_window(ip)) >= 10
       /\ Len(port_scan_alerts(ip)) = 1

\* C23: every stored score is greater than 0.75, and the scores a call adds
\* to an IP's sequence are the confidences of the non-benign predictions above
\* 0.75 attributed to it, in order: no benign and no low-confidence prediction
\* enters the score history.
C23_OnlyAlertingScores ==
  \A n \in DOMAIN ip_behavior :
    /\ \A r \in DOMAIN ip_behavior[n].v.scores : ip_behavior[n].v.scores[r] > 75
    /\ ml_call.outcome # "none" =>
         \E kept \in 0..Len(scores_before(ip_behavior[n].k)) :
           ip_behavior[n].v.scores
             = LastN(scores_before(ip_behavior[n].k), kept)
               \o most_recent(confidences_for(ip_behavior[n].k), 10)

\* the last call recorded scores for an IP that also had a benign prediction
\* above 0.75 and a non-benign one at or below it
C23_Witness ==
  \E n \in DOMAIN ip_behavior :
    /\ ip_behavior[n].v.scores # <<>>
    /\ confidences_for(ip_behavior[n].k) # <<>>
    /\ \E i \in 1..Len(ml_call.batch) :
         /\ Get(ml_call.batch[i].src, EMPTY) = ip_behavior[n].k
         /\ ml_call.cnn.preds[i].label = 0 /\ ml_call.cnn.preds[i].conf > 75
    /\ \E i \in 1..Len(ml_call.batch) :
         /\ Get(ml_call.batch[i].src, EMPTY) = ip_behavior[n].k
         /\ ml_call.cnn.preds[i].label # 0 /\ ml_call.cnn.preds[i].conf <= 75

====
